---- MODULE Spec2Model ----
(***************************************************************************)
(* Model of scripts/skip_failing_scenarios.py: the report aggregator       *)
(* (analyze_failures), the annotation writer (skip_failures) and the       *)
(* annotation normalizer (cleanup_skip_tags).                              *)
(*                                                                         *)
(* Text is modelled character by character: a string is a sequence of      *)
(* one-character strings, a line keeps its trailing "\n" as readlines()    *)
(* does, and a file is a sequence of lines.  Python indexes from 0, the    *)
(* sequences here from 1.                                                  *)
(***************************************************************************)
EXTENDS Integers, Sequences, FiniteSets, TLC

VARIABLES fs, reports, runs, last, prev, orig

vars == <<fs, reports, runs, last, prev, orig>>

(***************************************************************************)
(* Bounds of the model.                                                    *)
(***************************************************************************)
\* longest feature file of the single-failure input family
MaxLines == 6
\* longest feature file of the two-failure input family
MaxLinesMulti == 2
\* longest feature file given to the normalizer
MaxLinesCleanup == 3
\* number of runs of the tool in one behaviour
MaxRuns == 2
\* how far beyond the truncation limit the longest error text reaches
MaxOver == 1

(***************************************************************************)
(* Program constants.                                                      *)
(***************************************************************************)
\* if len(reason) > 100
ReasonLimit == 100
\* reason[:97] + "..."
ReasonKeep == 97
\* for i in range(1, 5): the last offset of the look-back window
WindowLast == 4

(***************************************************************************)
(* String literals of the program.                                         *)
(***************************************************************************)
kScenario == <<"S", "c", "e", "n", "a", "r", "i", "o">>
kFeature == <<"F", "e", "a", "t", "u", "r", "e">>
kSkip == <<"@", "s", "k", "i", "p">>
kIgnore == <<"@", "i", "g", "n", "o", "r", "e">>
kSkipReason == <<"#", " ", "S", "K", "I", "P", " ", "R", "E", "A", "S", "O", "N", ":">>
kErrorPrefix == <<"E", "r", "r", "o", "r", ":", " ">>
kUnknownError == <<"U", "n", "k", "n", "o", "w", "n", " ", "e", "r", "r", "o", "r">>
kEllipsis == <<".", ".", ".">>
NL == <<"\n">>

(***************************************************************************)
(* Python string operations.                                               *)
(***************************************************************************)
Min(S) == CHOOSE x \in S : \A y \in S : x <= y
Max(S) == CHOOSE x \in S : \A y \in S : x >= y

IsSpace(c) == c \in {" ", "\t", "\n", "\r"}

NonSpaceIdx(s) == {i \in 1..Len(s) : ~IsSpace(s[i])}

\* str.strip()
Strip(s) ==
    IF NonSpaceIdx(s) = {} THEN <<>>
    ELSE SubSeq(s, Min(NonSpaceIdx(s)), Max(NonSpaceIdx(s)))

\* str.startswith(p)
StartsWith(s, p) == Len(p) <= Len(s) /\ SubSeq(s, 1, Len(p)) = p

\* str.endswith(p)
EndsWith(s, p) == Len(p) <= Len(s) /\ SubSeq(s, Len(s) - Len(p) + 1, Len(s)) = p

\* p in s
Contains(s, p) == \E i \in 0..(Len(s) - Len(p)) : SubSeq(s, i + 1, i + Len(p)) = p

\* group 1 of the regular expression ^(\s*)
LeadingWs(s) ==
    IF NonSpaceIdx(s) = {} THEN s ELSE SubSeq(s, 1, Min(NonSpaceIdx(s)) - 1)

DropLeadingWs(s) == SubSeq(s, Len(LeadingWs(s)) + 1, Len(s))

\* what .* matches from the start of s: everything before the first newline
UpToNewline(s) ==
    LET nl == {i \in 1..Len(s) : s[i] = "\n"}
    IN IF nl = {} THEN s ELSE SubSeq(s, 1, Min(nl) - 1)

\* str.split('\n')[0]
FirstLine(s) == UpToNewline(s)

\* str.replace('"', "'")
ReplaceQuotes(s) == [i \in 1..Len(s) |-> IF s[i] = "\"" THEN "'" ELSE s[i]]

(***************************************************************************)
(* The file system: each path holds a file (a sequence of lines) or        *)
(* nothing.                                                                *)
(***************************************************************************)
URIs == {"a.feature", "b.feature"}

Missing == [exists |-> FALSE, lines |-> <<>>]
File(ls) == [exists |-> TRUE, lines |-> ls]

\* all sequences over S of length at most n
SeqsUpTo(S, n) == UNION {[1..k -> S] : k \in 0..n}

(***************************************************************************)
(* cleanup_skip_tags                                                       *)
(***************************************************************************)
\* the part of the line after ^\s*@skip, when the line starts that way
AfterSkip(line) ==
    LET body == DropLeadingWs(line)
    IN IF StartsWith(body, kSkip) THEN SubSeq(body, Len(kSkip) + 1, Len(body)) ELSE <<>>

\* re.match(r'^\s*@skip\s+#', line)
InlineSkipMatch(line) ==
    LET rest == AfterSkip(line)
        w == Len(LeadingWs(rest))
    IN /\ StartsWith(DropLeadingWs(line), kSkip)
       /\ w >= 1
       /\ w < Len(rest)
       /\ rest[w + 1] = "#"

\* group 2 of re.match(r'^(\s*)@skip\s+#\s*(.*)', line)
InlineReasonGroup(line) ==
    LET rest == AfterSkip(line)
        w == Len(LeadingWs(rest))
    IN UpToNewline(DropLeadingWs(SubSeq(rest, w + 2, Len(rest))))

\* reason = match.group(2).strip(), without a leading "Error: "
InlineReason(line) ==
    LET reason == Strip(InlineReasonGroup(line))
    IN IF StartsWith(reason, kErrorPrefix)
       THEN SubSeq(reason, Len(kErrorPrefix) + 1, Len(reason))
       ELSE reason

\* the inner while loop: the index of the last line of the run of inline
\* markers that starts at i
RECURSIVE LastInlineDup(_, _)
LastInlineDup(lines, i) ==
    IF i + 1 <= Len(lines) /\ InlineSkipMatch(lines[i + 1])
    THEN LastInlineDup(lines, i + 1)
    ELSE i

SkipCommentLine(indentation, reason) == indentation \o kSkipReason \o <<" ">> \o reason \o NL
SkipTagLine(indentation) == indentation \o kSkip \o NL

\* The while loop over the lines of one file.  src records, for every line of
\* new_lines, the index of the input line whose processing emitted it.
RECURSIVE CleanupLoop(_, _, _, _, _)
CleanupLoop(lines, i, new_lines, modified, src) ==
    IF i > Len(lines)
    THEN [new_lines |-> new_lines, modified |-> modified, src |-> src]
    ELSE LET line == lines[i]
             stripped == Strip(line)
         IN IF InlineSkipMatch(line)
            THEN LET indentation == LeadingWs(line)
                     reason == InlineReason(line)
                     j == LastInlineDup(lines, i)
                 IN CleanupLoop(lines, j + 1,
                                new_lines \o <<SkipCommentLine(indentation, reason),
                                               SkipTagLine(indentation)>>,
                                TRUE, src \o <<i, i>>)
            ELSE IF /\ stripped = kSkip
                    /\ new_lines # <<>>
                    /\ Strip(new_lines[Len(new_lines)]) = kSkip
                 THEN CleanupLoop(lines, i + 1, new_lines, TRUE, src)
                 ELSE CleanupLoop(lines, i + 1, Append(new_lines, line), modified,
                                  Append(src, i))

\* the same with modified set on every path
CleanupFileAlwaysModified(lines) ==
    [CleanupLoop(lines, 1, <<>>, FALSE, <<>>) EXCEPT !.modified = TRUE]

CleanupFile(lines) == CleanupLoop(lines, 1, <<>>, FALSE, <<>>)

\* the files the two glob patterns find
FeatureFiles(files) == {u \in URIs : files[u].exists}

\* the whole of cleanup_skip_tags: every feature file is read, normalized and
\* written back when it was modified
CleanupAll(files) ==
    [u \in URIs |-> IF files[u].exists THEN CleanupFile(files[u].lines)
                    ELSE [new_lines |-> <<>>, modified |-> FALSE, src |-> <<>>]]

CleanupRunRecord(files, report_files, res) ==
    [mode |-> "cleanup", reports |-> report_files, before |-> files,
     after |-> [u \in URIs |-> IF res[u].modified THEN File(res[u].new_lines)
                               ELSE files[u]],
     failures |-> <<>>, events |-> <<>>,
     written |-> {u \in FeatureFiles(files) : res[u].modified},
     warnings |-> {}, src |-> [u \in URIs |-> res[u].src]]

NoRun ==
    [mode |-> "none", reports |-> <<>>, before |-> [u \in URIs |-> Missing],
     after |-> [u \in URIs |-> Missing], failures |-> <<>>, events |-> <<>>,
     written |-> {}, warnings |-> {}, src |-> [u \in URIs |-> <<>>]]

\* python skip_failing_scenarios.py --cleanup
Cleanup ==
    /\ runs < MaxRuns
    /\ last' = CleanupRunRecord(fs, reports, CleanupAll(fs))
    /\ fs' = last'.after
    /\ prev' = last
    /\ runs' = runs + 1
    /\ UNCHANGED <<reports, orig>>

(***************************************************************************)
(* analyze_failures                                                        *)
(*                                                                         *)
(* A report is [readable, features].  A feature is [ok, uri, elements]:    *)
(* ok = FALSE stands for an entry of the JSON array that is no object, on  *)
(* which feature.get raises; uri = "" stands for an absent uri.  An        *)
(* element is [type, line, name, id, steps] and a step is                  *)
(* [status, has_msg, msg].                                                 *)
(***************************************************************************)
\* the first step whose status is "failed", or 0
FirstFailedStep(steps) ==
    LET failed == {k \in 1..Len(steps) : steps[k].status = "failed"}
    IN IF failed = {} THEN 0 ELSE Min(failed)

\* error_message of a failed step: result.get('error_message', 'Unknown error'),
\* reduced to its first line, stripped, when it is not empty
ErrorMessage(step) ==
    LET error_message == IF step.has_msg THEN step.msg ELSE kUnknownError
    IN IF error_message # <<>> THEN Strip(FirstLine(error_message)) ELSE error_message

\* the failure records of the elements of one feature, in order
RECURSIVE ElementFailures(_, _, _)
ElementFailures(feature_uri, elements, k) ==
    IF k > Len(elements) THEN <<>>
    ELSE LET element == elements[k]
             f == FirstFailedStep(element.steps)
             rest == ElementFailures(feature_uri, elements, k + 1)
         IN IF element.type # "scenario" \/ f = 0 THEN rest
            ELSE <<[uri |-> feature_uri, line |-> element.line, name |-> element.name,
                    id |-> element.id, error |-> ErrorMessage(element.steps[f])]>> \o rest

\* The loop over the features of one report inside the try block: the records
\* appended so far stay in the list when an entry raises.
RECURSIVE FeatureFailures(_, _)
FeatureFailures(features, k) ==
    IF k > Len(features) THEN [failures |-> <<>>, raised |-> FALSE]
    ELSE LET feature == features[k]
         IN IF ~feature.ok THEN [failures |-> <<>>, raised |-> TRUE]
            ELSE LET rest == FeatureFailures(features, k + 1)
                     mine == IF feature.uri = "" THEN <<>>
                             ELSE ElementFailures(feature.uri, feature.elements, 1)
                 IN [failures |-> mine \o rest.failures, raised |-> rest.raised]

\* one iteration of the loop over report_files
ReportFailures(report) ==
    IF ~report.readable THEN [failures |-> <<>>, raised |-> TRUE]
    ELSE FeatureFailures(report.features, 1)

RECURSIVE AllFailures(_, _)
AllFailures(report_files, k) ==
    IF k > Len(report_files) THEN <<>>
    ELSE ReportFailures(report_files[k]).failures \o AllFailures(report_files, k + 1)

\* the reports whose reading printed "Error reading ..."
ReportErrors(report_files) ==
    {k \in 1..Len(report_files) : ReportFailures(report_files[k]).raised}

\* the seen_ids loop
RECURSIVE Dedup(_, _, _)
Dedup(failures, k, seen_ids) ==
    IF k > Len(failures) THEN <<>>
    ELSE IF failures[k].id \notin seen_ids
         THEN <<failures[k]>> \o Dedup(failures, k + 1, seen_ids \cup {failures[k].id})
         ELSE Dedup(failures, k + 1, seen_ids)

\* the same without the seen_ids test
UniqueFailuresKeepAll(failures) == failures

UniqueFailures(failures) == Dedup(failures, 1, {})

\* the order of the paths as strings
UriRank(u) == IF u = "a.feature" THEN 1 ELSE 2

\* key=lambda x: (x['uri'], x['line'])
KeyLess(x, y) ==
    \/ UriRank(x.uri) < UriRank(y.uri)
    \/ UriRank(x.uri) = UriRank(y.uri) /\ x.line < y.line

\* key=lambda x: x['line'], reverse=True
LineGreater(x, y) == x.line > y.line

\* the comparison a sort uses, chosen by its key
Before(key, x, y) == IF key = "uri_line" THEN KeyLess(x, y) ELSE LineGreater(x, y)

\* list.sort is stable: x goes behind every element that is not behind it
RECURSIVE InsertSorted(_, _, _)
InsertSorted(sorted, x, key) ==
    IF sorted = <<>> THEN <<x>>
    ELSE IF Before(key, x, Head(sorted)) THEN <<x>> \o sorted
         ELSE <<Head(sorted)>> \o InsertSorted(Tail(sorted), x, key)

RECURSIVE StableSort(_, _, _)
StableSort(seq, k, key) ==
    IF k = 0 THEN <<>>
    ELSE InsertSorted(StableSort(seq, k - 1, key), seq[k], key)

SortByUriLine(failures) == StableSort(failures, Len(failures), "uri_line")
SortByLineDesc(failures) == StableSort(failures, Len(failures), "line_desc")

analyze_failures(report_files) ==
    SortByUriLine(UniqueFailures(AllFailures(report_files, 1)))

(***************************************************************************)
(* skip_failures                                                           *)
(***************************************************************************)
\* the keys of files_to_modify in insertion order
RECURSIVE GroupKeys(_, _, _)
GroupKeys(failures, k, seen) ==
    IF k > Len(failures) THEN <<>>
    ELSE IF failures[k].uri \in seen THEN GroupKeys(failures, k + 1, seen)
         ELSE <<failures[k].uri>> \o GroupKeys(failures, k + 1, seen \cup {failures[k].uri})

\* files_to_modify[uri]
RECURSIVE GroupOf(_, _, _)
GroupOf(failures, uri, k) ==
    IF k > Len(failures) THEN <<>>
    ELSE (IF failures[k].uri = uri THEN <<failures[k]>> ELSE <<>>)
         \o GroupOf(failures, uri, k + 1)

\* the test of one line in the search for the definition of target_name
IsDefinitionOf(line, target_name) ==
    /\ EndsWith(Strip(line), target_name)
    /\ StartsWith(Strip(line), kScenario)
    /\ Contains(line, target_name)

\* the for loop over enumerate(lines): the first line that passes, or 0
Locate(lines, target_name) ==
    LET hits == {i \in 1..Len(lines) : IsDefinitionOf(lines[i], target_name)}
    IN IF hits = {} THEN 0 ELSE Min(hits)

\* the same with the slice taken at the limit: reason[:100] + "..."
ReasonCutAtLimit(error) ==
    IF Len(ReplaceQuotes(error)) > ReasonLimit
    THEN SubSeq(ReplaceQuotes(error), 1, ReasonLimit) \o kEllipsis
    ELSE ReplaceQuotes(error)

\* reason = failure['error'].replace('"', "'"), shortened
Reason(error) ==
    LET reason == ReplaceQuotes(error)
    IN IF Len(reason) > ReasonLimit
       THEN SubSeq(reason, 1, ReasonKeep) \o kEllipsis
       ELSE reason

IsMarker(prev_line) ==
    \/ StartsWith(prev_line, kSkip)
    \/ StartsWith(prev_line, kIgnore)
    \/ StartsWith(prev_line, kSkipReason)

IsBoundary(prev_line) ==
    \/ StartsWith(prev_line, kScenario)
    \/ StartsWith(prev_line, kFeature)

\* the loop for i in range(1, 5) from offset i on
RECURSIVE ScanBack(_, _, _)
ScanBack(lines, line_idx, i) ==
    IF i > WindowLast THEN FALSE
    ELSE IF line_idx - i >= 1
         THEN LET prev_line == Strip(lines[line_idx - i])
              IN IF IsMarker(prev_line) THEN TRUE
                 ELSE IF IsBoundary(prev_line) THEN FALSE
                      ELSE ScanBack(lines, line_idx, i + 1)
         ELSE ScanBack(lines, line_idx, i + 1)

\* the same without .strip() on the previous line
RECURSIVE ScanBackUnstripped(_, _, _)
ScanBackUnstripped(lines, line_idx, i) ==
    IF i > WindowLast THEN FALSE
    ELSE IF line_idx - i >= 1
         THEN IF IsMarker(lines[line_idx - i]) THEN TRUE
              ELSE IF IsBoundary(lines[line_idx - i]) THEN FALSE
                   ELSE ScanBackUnstripped(lines, line_idx, i + 1)
         ELSE ScanBackUnstripped(lines, line_idx, i + 1)

IsAlreadySkippedUnstripped(lines, line_idx) == ScanBackUnstripped(lines, line_idx, 1)

\* the same with the window one line shorter: range(1, 4)
RECURSIVE ScanBackShort(_, _, _)
ScanBackShort(lines, line_idx, i) ==
    IF i > WindowLast - 1 THEN FALSE
    ELSE IF line_idx - i >= 1
         THEN IF IsMarker(Strip(lines[line_idx - i])) THEN TRUE
              ELSE IF IsBoundary(Strip(lines[line_idx - i])) THEN FALSE
                   ELSE ScanBackShort(lines, line_idx, i + 1)
         ELSE ScanBackShort(lines, line_idx, i + 1)

IsAlreadySkippedShortWindow(lines, line_idx) == ScanBackShort(lines, line_idx, 1)

IsAlreadySkipped(lines, line_idx) == ScanBack(lines, line_idx, 1)

\* the same with the pair put in place of the definition line
InsertPairOverDefinition(lines, line_idx, skip_comment, skip_tag) ==
    SubSeq(lines, 1, line_idx - 1) \o <<skip_comment, skip_tag>>
        \o SubSeq(lines, line_idx + 1, Len(lines))

\* lines.insert(line_idx, skip_tag); lines.insert(line_idx, skip_comment)
InsertPair(lines, line_idx, skip_comment, skip_tag) ==
    SubSeq(lines, 1, line_idx - 1) \o <<skip_comment, skip_tag>>
        \o SubSeq(lines, line_idx, Len(lines))

\* what one iteration of the loop over file_failures saw and did
Event(uri, failure, line_idx, lines, is_already_skipped, wrote) ==
    [uri |-> uri, failure |-> failure, found |-> line_idx # 0, idx |-> line_idx,
     seen |-> lines, already |-> is_already_skipped,
     inserted |-> wrote # <<>>, wrote |-> wrote]

\* the end of an iteration, from "if not is_already_skipped" on
InsertUnlessSkipped(uri, lines, failure, line_idx, skip_comment, skip_tag, is_already_skipped) ==
    IF ~is_already_skipped
    THEN [lines |-> InsertPair(lines, line_idx, skip_comment, skip_tag),
          modified |-> TRUE,
          event |-> Event(uri, failure, line_idx, lines, FALSE,
                          <<skip_comment, skip_tag>>)]
    ELSE [lines |-> lines, modified |-> FALSE,
          event |-> Event(uri, failure, line_idx, lines, TRUE, <<>>)]

\* an iteration from the line where indentation is taken on
AnnotateWith(uri, lines, failure, line_idx, indentation) ==
    InsertUnlessSkipped(uri, lines, failure, line_idx,
                        SkipCommentLine(indentation, Reason(failure.error)),
                        SkipTagLine(indentation),
                        IsAlreadySkipped(lines, line_idx))

\* an iteration once the search for the definition line has ended
AnnotateAt(uri, lines, failure, line_idx) ==
    IF line_idx = 0
    THEN [lines |-> lines, modified |-> FALSE,
          event |-> Event(uri, failure, 0, lines, FALSE, <<>>)]
    ELSE AnnotateWith(uri, lines, failure, line_idx, LeadingWs(lines[line_idx]))

\* one iteration of the loop over file_failures
AnnotateOne(uri, lines, failure) ==
    AnnotateAt(uri, lines, failure, Locate(lines, failure.name))

ThenEvents(event, rest) ==
    [lines |-> rest.lines, modified |-> rest.modified, events |-> <<event>> \o rest.events]

\* the loop over file_failures, from the k-th failure on
RECURSIVE AnnotateFrom(_, _, _, _, _)
AnnotateAfter(uri, one, file_failures, k, modified) ==
    ThenEvents(one.event,
               AnnotateFrom(uri, one.lines, file_failures, k + 1, modified \/ one.modified))

AnnotateFrom(uri, lines, file_failures, k, modified) ==
    IF k > Len(file_failures)
    THEN [lines |-> lines, modified |-> modified, events |-> <<>>]
    ELSE AnnotateAfter(uri, AnnotateOne(uri, lines, file_failures[k]), file_failures, k,
                       modified)

\* the body of the loop over files_to_modify for a file that exists
AnnotateFile(uri, lines, file_failures) ==
    AnnotateFrom(uri, lines, SortByLineDesc(file_failures), 1, FALSE)

\* the same with the write done for every file read
ModifiedAlways(res) == TRUE

\* the test "if modified:" that guards the write
Modified(res) == res.modified

\* if modified: write the lines back
WriteBack(files, uri, res) ==
    IF Modified(res) THEN [files EXCEPT ![uri] = File(res.lines)] ELSE files

ThenFiles(uri, res, rest) ==
    [after |-> rest.after,
     written |-> rest.written \cup (IF Modified(res) THEN {uri} ELSE {}),
     events |-> res.events \o rest.events,
     missing |-> rest.missing]

ThenMissing(uri, rest) == [rest EXCEPT !.missing = @ \cup {uri}]

\* the loop over files_to_modify.items(), from the k-th key on
RECURSIVE AnnotateFiles(_, _, _, _)
AnnotateFilesAfter(files, failures, keys, k, res) ==
    ThenFiles(keys[k], res,
              AnnotateFiles(WriteBack(files, keys[k], res), failures, keys, k + 1))

AnnotateFiles(files, failures, keys, k) ==
    IF k > Len(keys)
    THEN [after |-> files, written |-> {}, events |-> <<>>, missing |-> {}]
    ELSE IF ~files[keys[k]].exists
         THEN ThenMissing(keys[k], AnnotateFiles(files, failures, keys, k + 1))
         ELSE AnnotateFilesAfter(files, failures, keys, k,
                  AnnotateFile(keys[k], files[keys[k]].lines,
                               GroupOf(failures, keys[k], 1)))

WithFailures(res, failures) ==
    [after |-> res.after, written |-> res.written, events |-> res.events,
     missing |-> res.missing, failures |-> failures]

\* skip_failures once analyze_failures has returned
SkipFailuresOn(files, failures) ==
    IF failures = <<>>
    THEN [after |-> files, written |-> {}, events |-> <<>>, missing |-> {},
          failures |-> failures]
    ELSE WithFailures(AnnotateFiles(files, failures, GroupKeys(failures, 1, {}), 1),
                      failures)

\* the whole of skip_failures on the files and the report files given
SkipFailuresRun(files, report_files) ==
    SkipFailuresOn(files, analyze_failures(report_files))

\* what the run printed about problems
Warnings(report_files, res) ==
    {<<"report", k>> : k \in ReportErrors(report_files)}
        \cup {<<"missing", u>> : u \in res.missing}
        \cup {<<"unlocatable", res.events[e].uri, res.events[e].failure.id>> :
                e \in {e \in 1..Len(res.events) : ~res.events[e].found}}

SkipRunRecord(files, report_files, res) ==
    [mode |-> "skip", reports |-> report_files, before |-> files,
     after |-> res.after, failures |-> res.failures,
     events |-> res.events, written |-> res.written,
     warnings |-> Warnings(report_files, res),
     src |-> [u \in URIs |-> <<>>]]

\* python skip_failing_scenarios.py
SkipFailures ==
    /\ runs < MaxRuns
    /\ last' = SkipRunRecord(fs, reports, SkipFailuresRun(fs, reports))
    /\ fs' = last'.after
    /\ prev' = last
    /\ runs' = runs + 1
    /\ UNCHANGED <<reports, orig>>

(***************************************************************************)
(* Inputs of the normalizer.                                               *)
(***************************************************************************)
Ind2 == <<" ", " ">>
NameA == <<"A">>
NameBA == <<"B", " ", "A">>
NameC == <<"C">>
ScenarioLine(ind, name) == ind \o kScenario \o <<":", " ">> \o name \o NL
OutlineLine(ind, name) ==
    ind \o kScenario \o <<" ", "O", "u", "t", "l", "i", "n", "e", ":", " ">> \o name \o NL
FeatureLine == kFeature \o <<":", " ", "F">> \o NL
StepLine == <<" ", " ", " ", " ", "G", "i", "v", "e", "n", " ", "s">> \o NL
InlineErrLine == Ind2 \o kSkip \o <<" ", "#", " ">> \o kErrorPrefix \o <<"x">> \o NL
InlineLine == kSkip \o <<" ", " ", "#", "y", " ">> \o NL

CleanupLinePool ==
    { SkipTagLine(Ind2), SkipTagLine(<<>>), InlineErrLine, InlineLine,
      SkipCommentLine(Ind2, <<"x">>), ScenarioLine(Ind2, NameA), StepLine }

InitCleanup ==
    /\ fs \in {[u \in URIs |-> IF u = "a.feature" THEN File(ls)
                               ELSE File(<<InlineLine, SkipTagLine(<<>>)>>)] :
                  ls \in SeqsUpTo(CleanupLinePool, MaxLinesCleanup)}
    /\ reports = <<>>
    /\ runs = 0
    /\ last = NoRun
    /\ prev = NoRun
    /\ orig = fs

NextCleanup == Cleanup

SpecCleanup == InitCleanup /\ [][NextCleanup]_vars

(***************************************************************************)
(* Inputs of the writer.                                                   *)
(***************************************************************************)
FailedStep(msg) == [status |-> "failed", has_msg |-> TRUE, msg |-> msg]
FailedStepNoMessage == [status |-> "failed", has_msg |-> FALSE, msg |-> <<>>]
PassedStep == [status |-> "passed", has_msg |-> FALSE, msg |-> <<>>]
Element(type, line, name, id, steps) ==
    [type |-> type, line |-> line, name |-> name, id |-> id, steps |-> steps]
Feature(uri, elements) == [ok |-> TRUE, uri |-> uri, elements |-> elements]
BadFeature == [ok |-> FALSE, uri |-> "", elements |-> <<>>]
Report(features) == [readable |-> TRUE, features |-> features]
UnreadableReport == [readable |-> FALSE, features |-> <<>>]

Xs(n) == [i \in 1..n |-> "x"]
MsgShort == kErrorPrefix \o <<"x">>
MsgQuoted == <<" ", "e", "\"", "q", "\"", " ", "\n", "m", "o", "r", "e">>
MsgAtLimit == Xs(ReasonLimit)
MsgOverLimit == Xs(ReasonLimit + MaxOver)
MsgOverQuoted == Xs(ReasonKeep - 1) \o <<"\"">> \o Xs(ReasonLimit - ReasonKeep + MaxOver)
MsgPadded == <<" ">> \o Xs(ReasonLimit) \o <<" ", "\n", "y">>

StepsPool ==
    { <<FailedStep(MsgShort)>>, <<FailedStep(MsgQuoted)>>, <<FailedStep(MsgAtLimit)>>,
      <<FailedStep(MsgOverLimit)>>, <<FailedStep(MsgOverQuoted)>>, <<FailedStep(MsgPadded)>>,
      <<FailedStep(<<>>)>>, <<FailedStepNoMessage>>,
      <<PassedStep, FailedStep(MsgQuoted), FailedStep(MsgShort)>>,
      <<PassedStep>>, <<>> }

IgnoreLine == kIgnore \o NL

\* one failing scenario, a long file: the search for the definition and the
\* look-back window
RichLinePool == {ScenarioLine(Ind2, NameBA), SkipTagLine(Ind2), StepLine}

InitRich ==
    /\ \E ls \in SeqsUpTo(RichLinePool, MaxLines) :
          fs = [u \in URIs |-> IF u = "a.feature" THEN File(ls) ELSE Missing]
    /\ \E n \in {NameA, NameBA} :
          reports = <<Report(<<Feature("a.feature",
                        <<Element("scenario", 2, n, "id1", <<FailedStep(MsgShort)>>)>>)>>)>>

\* two failing scenarios in one or two reports, short files
MultiLinePool == {ScenarioLine(Ind2, NameA), ScenarioLine(<<>>, NameBA), SkipTagLine(Ind2)}

Layouts(f1, f2) ==
    { <<Report(<<f1>>), Report(<<f2>>)>>,
      <<Report(<<f1, BadFeature, f2>>)>>,
      <<UnreadableReport, Report(<<f1, f2>>)>> }

InitMulti ==
    /\ \E ls \in SeqsUpTo(MultiLinePool, MaxLinesMulti), a \in BOOLEAN :
          fs = [u \in URIs |-> IF u = "a.feature"
                               THEN (IF a \/ ls # <<>> THEN File(ls) ELSE Missing)
                               ELSE File(<<ScenarioLine(<<>>, NameA)>>)]
    /\ \E u1 \in URIs, u2 \in URIs, n1 \in {NameA, NameBA}, n2 \in {NameA, NameBA},
          l1 \in {1, 2}, i2 \in {"id1", "id2"} :
          reports \in Layouts(
              Feature(u1, <<Element("scenario", l1, n1, "id1", <<FailedStep(MsgShort)>>)>>),
              Feature(u2, <<Element("scenario", 2, n2, i2, <<FailedStep(MsgQuoted)>>)>>))

\* one scenario with every kind of step list, the files a project has
SampleFiles ==
    { <<FeatureLine, ScenarioLine(Ind2, NameA), StepLine>>,
      <<FeatureLine, SkipCommentLine(Ind2, <<"x">>), SkipTagLine(Ind2),
        ScenarioLine(Ind2, NameA)>>,
      <<IgnoreLine, OutlineLine(<<>>, NameA)>>,
      <<SkipTagLine(<<>>), FeatureLine, ScenarioLine(Ind2, NameA)>>,
      <<SkipTagLine(Ind2), ScenarioLine(Ind2, NameC), StepLine,
        ScenarioLine(Ind2, NameA), StepLine>> }

InitSteps ==
    /\ \E ls \in SampleFiles :
          fs = [u \in URIs |-> IF u = "a.feature" THEN File(ls) ELSE Missing]
    /\ \E t \in {"scenario", "background"}, u \in {"a.feature", ""}, steps \in StepsPool :
          reports = <<Report(<<Feature(u, <<Element(t, 2, NameA, "id1", steps)>>)>>)>>

Init ==
    /\ InitRich \/ InitMulti \/ InitSteps
    /\ runs = 0
    /\ last = NoRun
    /\ prev = NoRun
    /\ orig = fs

\* the report files a later CI run leaves behind
RerunPool ==
    { <<>>,
      <<Report(<<Feature("a.feature",
                  <<Element("scenario", 1, NameA, "id3", <<FailedStep(MsgShort)>>)>>)>>)>> }

\* CI runs again after the first run of the tool and replaces the report files
NewReports ==
    /\ runs < MaxRuns
    /\ last.mode = "skip"
    /\ prev.mode = "none"
    /\ reports = last.reports
    /\ reports' \in RerunPool \ {reports}
    /\ UNCHANGED <<fs, runs, last, prev, orig>>

Next == SkipFailures \/ NewReports

Spec == Init /\ [][Next]_vars

(***************************************************************************)
(* Properties.                                                             *)
(***************************************************************************)
Idx(seq) == 1..Len(seq)

InsertedEvents(run) == {e \in Idx(run.events) : run.events[e].inserted}

\* a bare '@skip' line or a '# SKIP REASON:' comment line
IsBareSkip(line) == Strip(line) = kSkip
IsReasonComment(line) == StartsWith(Strip(line), kSkipReason)
IsAnnotationLine(line) == IsBareSkip(line) \/ IsReasonComment(line)

\* C1: when skip_failures runs twice in a row against the same reports, the
\* second run inserts nothing: every file is after the second run what it was
\* after the first, and the second run writes no file.
C1_WriterIdempotent ==
    (last.mode = "skip" /\ prev.mode = "skip" /\ last.reports = prev.reports)
        => /\ last.after = prev.after
           /\ InsertedEvents(last) = {}
           /\ last.written = {}

\* a second run against the same reports, after a first run that did annotate
C1_Witness ==
    /\ last.mode = "skip" /\ prev.mode = "skip" /\ last.reports = prev.reports
    /\ Cardinality(InsertedEvents(prev)) = 2
    /\ last.after = prev.after

\* the name a definition line gives its scenario: the text after
\* "Scenario:" or "Scenario Outline:"
DefinedName(line) ==
    LET colon == {i \in Idx(line) : line[i] = ":"}
    IN IF colon = {} THEN <<>> ELSE Strip(SubSeq(line, Min(colon) + 1, Len(line)))

\* the line defines the scenario of that name
IsDefinitionLine(line, name) ==
    StartsWith(Strip(line), kScenario) /\ DefinedName(line) = name

\* the file holds the definition of the scenario of that name
HasDefinition(lines, name) == \E i \in Idx(lines) : IsDefinitionLine(lines[i], name)

\* C2: when the file holds the definition of the scenario named in a failure
\* record, the annotation pair inserted for the record stands immediately
\* above a definition line of that scenario and of no other, whatever the
\* reported line number and whatever other scenario names the file holds.
C2_AnnotatesNamedScenario ==
    last.mode = "skip" =>
        \A e \in InsertedEvents(last) :
            LET ev == last.events[e]
            IN HasDefinition(ev.seen, ev.failure.name) =>
                  /\ IsDefinitionLine(ev.seen[ev.idx], ev.failure.name)
                  /\ \E p \in Idx(last.after[ev.uri].lines) :
                        /\ p + 2 <= Len(last.after[ev.uri].lines)
                        /\ last.after[ev.uri].lines[p] = ev.wrote[1]
                        /\ last.after[ev.uri].lines[p + 1] = ev.wrote[2]
                        /\ last.after[ev.uri].lines[p + 2] = ev.seen[ev.idx]

\* the records of all reports before deduplication
RawFailures(run) == AllFailures(run.reports, 1)

\* the number of lines of all files
RECURSIVE SumLines(_, _)
SumLines(files, us) ==
    IF us = {} THEN 0
    ELSE LET u == CHOOSE u \in us : TRUE
         IN Len(files[u].lines) + SumLines(files, us \ {u})

\* C3: records that share an identifier are reduced to the first of them, one
\* run handles each identifier once, and the files grow by exactly one
\* annotation pair for each insertion.
C3_Deduplicated ==
    last.mode = "skip" =>
        LET raw == RawFailures(last)
        IN /\ \A i, j \in Idx(last.failures) :
                 last.failures[i].id = last.failures[j].id => i = j
           /\ \A r \in Idx(raw) :
                 \E k \in Idx(last.failures) :
                    /\ last.failures[k].id = raw[r].id
                    /\ last.failures[k] =
                          raw[Min({q \in Idx(raw) : raw[q].id = raw[r].id})]
           /\ \A i, j \in Idx(last.events) :
                 last.events[i].failure.id = last.events[j].failure.id => i = j
           /\ SumLines(last.after, URIs) =
                 SumLines(last.before, URIs) + 2 * Cardinality(InsertedEvents(last))

\* two records of different shards share an identifier and the run inserts
\* one annotation pair
C3_Witness ==
    /\ last.mode = "skip"
    /\ Len(last.reports) = 2
    /\ Len(RawFailures(last)) = 2
    /\ RawFailures(last)[1].id = RawFailures(last)[2].id
    /\ Len(last.failures) = 1
    /\ Cardinality(InsertedEvents(last)) = 1

\* no step of any scenario of any report has the status "failed"
NoFailedStep(report_files) ==
    \A r \in Idx(report_files) :
        \A f \in Idx(report_files[r].features) :
            \A el \in Idx(report_files[r].features[f].elements) :
                \A st \in Idx(report_files[r].features[f].elements[el].steps) :
                    report_files[r].features[f].elements[el].steps[st].status # "failed"

\* C4: a run over reports without a failed step writes no file and changes
\* none; in every run the files written are those into which the run inserted
\* an annotation, and every other file is left as it was.
C4_WritesOnlyOnInsertion ==
    last.mode = "skip" =>
        /\ NoFailedStep(last.reports) => (last.written = {} /\ last.after = last.before)
        /\ \A u \in URIs :
              /\ u \in last.written <=>
                    \E e \in InsertedEvents(last) : last.events[e].uri = u
              /\ u \notin last.written => last.after[u] = last.before[u]

\* a run over a report that holds a scenario whose steps all passed
C4_Witness ==
    /\ last.mode = "skip"
    /\ last.reports # <<>>
    /\ NoFailedStep(last.reports)
    /\ \E r \in Idx(last.reports) : \E f \in Idx(last.reports[r].features) :
          \E el \in Idx(last.reports[r].features[f].elements) :
             /\ last.reports[r].features[f].uri = "a.feature"
             /\ last.reports[r].features[f].elements[el].type = "scenario"
             /\ last.reports[r].features[f].elements[el].steps # <<>>
    /\ last.before["a.feature"].exists
    /\ last.written = {}

\* every skip marker of the file is a bare '@skip' line that follows a
\* '# SKIP REASON:' comment line
IsCanonical(lines) ==
    \A i \in Idx(lines) :
        /\ ~InlineSkipMatch(lines[i])
        /\ IsBareSkip(lines[i]) => (i > 1 /\ IsReasonComment(lines[i - 1]))

\* C5: cleanup_skip_tags leaves a file in canonical form as it is and does not
\* write it.
C5_CanonicalUntouched ==
    last.mode = "cleanup" =>
        \A u \in URIs :
            (last.before[u].exists /\ IsCanonical(last.before[u].lines))
                => (u \notin last.written /\ last.after[u] = last.before[u])

\* cleanup has run over a file that holds a canonical annotation pair
C5_Witness ==
    /\ last.mode = "cleanup"
    /\ \E u \in URIs :
          /\ last.before[u].exists
          /\ IsCanonical(last.before[u].lines)
          /\ \E i \in Idx(last.before[u].lines) : IsBareSkip(last.before[u].lines[i])
          /\ last.after[u] = last.before[u]

\* a skip marker of either form
IsSkipMarker(line) == IsBareSkip(line) \/ InlineSkipMatch(line)

\* the runs of consecutive skip markers of a file, as pairs of first and last
\* index
MarkerRuns(lines) ==
    {<<a, b>> \in Idx(lines) \X Idx(lines) :
        /\ a <= b
        /\ \A i \in a..b : IsSkipMarker(lines[i])
        /\ a = 1 \/ ~IsSkipMarker(lines[a - 1])
        /\ b = Len(lines) \/ ~IsSkipMarker(lines[b + 1])}

\* C6: after cleanup_skip_tags every run of consecutive skip markers of the
\* file (bare, inline or mixed, in either order) has left a single skip marker.
C6_DuplicatesCollapsed ==
    last.mode = "cleanup" =>
        \A u \in URIs :
            last.before[u].exists =>
                LET out == IF u \in last.written THEN last.after[u].lines
                           ELSE last.before[u].lines
                    src == last.src[u]
                IN \A run \in MarkerRuns(last.before[u].lines) :
                      Cardinality({k \in Idx(out) :
                                      /\ src[k] \in run[1]..run[2]
                                      /\ IsBareSkip(out[k])}) = 1

\* the reports whose reading raised nothing
GoodReports(report_files) ==
    SelectSeq(report_files, LAMBDA r : ~ReportFailures(r).raised)

\* C7: a report that cannot be read or is malformed contributes no failure
\* record, a missing file and an unlocatable scenario are left without edit,
\* each of the three is logged, and the run goes on to the other scenarios.
C7_ProblemsContributeNothing ==
    last.mode = "skip" =>
        /\ last.failures = analyze_failures(GoodReports(last.reports))
        /\ \A u \in URIs : ~last.before[u].exists => last.after[u] = last.before[u]
        /\ \A e \in Idx(last.events) :
              /\ last.before[last.events[e].uri].exists
              /\ ~last.events[e].found =>
                    (/\ ~last.events[e].inserted
                     /\ <<"unlocatable", last.events[e].uri, last.events[e].failure.id>>
                           \in last.warnings)
        /\ \A k \in Idx(last.failures) :
              \/ <<"missing", last.failures[k].uri>> \in last.warnings
              \/ \E e \in Idx(last.events) : last.events[e].failure = last.failures[k]

\* the reason text of a '# SKIP REASON:' line written with the indentation of
\* the definition line
WrittenReason(comment, definition) ==
    SubSeq(comment, Len(LeadingWs(definition)) + Len(kSkipReason) + 2, Len(comment) - 1)

\* C8: the reason written for a failure is its error text (first line,
\* trimmed, double quotes replaced) when that text has at most 100 characters,
\* and otherwise the first 97 characters of the text followed by "...".
C8_ReasonTruncated ==
    last.mode = "skip" =>
        \A e \in InsertedEvents(last) :
            LET ev == last.events[e]
                text == ReplaceQuotes(ev.failure.error)
                written == WrittenReason(ev.wrote[1], ev.seen[ev.idx])
            IN /\ Len(text) <= 100 => written = text
               /\ Len(text) > 100 =>
                     /\ Len(written) = 100
                     /\ SubSeq(written, 1, 97) = SubSeq(text, 1, 97)
                     /\ SubSeq(written, 98, 100) = <<".", ".", ".">>

\* an annotation written for an error text of more than 100 characters that
\* holds a double quote
C8_Witness ==
    /\ last.mode = "skip"
    /\ \E e \in InsertedEvents(last) :
          /\ Len(last.events[e].failure.error) > 100
          /\ \E i \in Idx(last.events[e].failure.error) :
                last.events[e].failure.error[i] = "\""

\* the offsets, among the up to 4 lines before the definition line, at which
\* a marker stands
MarkerOffsets(ev) ==
    {i \in 1..4 : ev.idx - i >= 1 /\ IsMarker(Strip(ev.seen[ev.idx - i]))}

\* the offsets at which a line starting with Scenario or Feature stands
BoundaryOffsets(ev) ==
    {i \in 1..4 : ev.idx - i >= 1 /\ IsBoundary(Strip(ev.seen[ev.idx - i]))}

\* C9 as stated: the pair is inserted exactly when none of the up to 4 lines
\* before the located definition line is an annotation marker.
C9_AnyMarkerInWindow ==
    last.mode = "skip" =>
        \A e \in Idx(last.events) :
            last.events[e].found =>
                (last.events[e].inserted <=> MarkerOffsets(last.events[e]) = {})

\* C9 amended: the pair is inserted exactly when no marker among the up to 4
\* lines before the located definition line is nearer to it than every line
\* of that window that starts with Scenario or Feature.
C9_MarkerBeforeBoundary ==
    last.mode = "skip" =>
        \A e \in Idx(last.events) :
            LET ev == last.events[e]
            IN ev.found =>
                  (ev.inserted <=>
                      ~\E i \in MarkerOffsets(ev) : \A b \in BoundaryOffsets(ev) : i < b)

\* a marker stands 4 lines before the definition line with no boundary line
\* between, and nothing is inserted
C9_Witness ==
    /\ last.mode = "skip"
    /\ \E e \in Idx(last.events) :
          /\ last.events[e].found
          /\ MarkerOffsets(last.events[e]) = {4}
          /\ BoundaryOffsets(last.events[e]) = {}
          /\ ~last.events[e].inserted

\* cur is old with annotation lines added and nothing else changed
RECURSIVE OnlyAnnotationsAdded(_, _)
OnlyAnnotationsAdded(cur, old) ==
    IF cur = <<>> THEN old = <<>>
    ELSE IF old # <<>> /\ Head(cur) = Head(old)
         THEN OnlyAnnotationsAdded(Tail(cur), Tail(old))
         ELSE IsAnnotationLine(Head(cur)) /\ OnlyAnnotationsAdded(Tail(cur), old)

\* C10: after any runs of skip_failures each file holds the lines it held at
\* first, unchanged and in their order, and every other line of it is a
\* '# SKIP REASON:' comment line or a bare '@skip' line.
C10_OnlyAnnotationsAdded ==
    \A u \in URIs :
        /\ fs[u].exists = orig[u].exists
        /\ OnlyAnnotationsAdded(fs[u].lines, orig[u].lines)

\* two runs with different reports have both added lines to one file
C10_Witness ==
    /\ runs = 2
    /\ last.reports # prev.reports
    /\ \E u \in URIs :
          /\ u \in last.written /\ u \in prev.written
          /\ Len(fs[u].lines) = Len(orig[u].lines) + 4

====
